---- MODULE Spec2Model ----
\* Verification model of @scell/sdk: the retry engine (src/utils/retry.ts) and
\* the webhook signature verifier (src/utils/webhook-verify.ts).
EXTENDS Integers, Sequences, FiniteSets, TLC

\* ---------------------------------------------------------------- bounds
\* Largest explicit options.maxRetries the model passes to withRetry.
MaxRetriesBound == 3
\* Math.random() is drawn from { r / RandDen : r \in 0..RandDen-1 }.
RandDen == 2
\* Longest string handed to secureCompare on its own.
MaxCompareLen == 3

\* ------------------------------------------------------------- JS values
\* An optional value (T | undefined) is the empty set or a singleton.
None == {}
Some(v) == {v}
\* JavaScript's  x ?? d
OrElse(x, d) == IF x = None THEN d ELSE CHOOSE v \in x : TRUE

\* A JavaScript number that may be NaN.
NaN == [nan |-> TRUE, v |-> 0]
Num(n) == [nan |-> FALSE, v |-> n]
\* a > b on numbers: false as soon as one side is NaN.
JsGt(a, b) == ~a.nan /\ ~b.nan /\ a.v > b.v

Min(a, b) == IF a <= b THEN a ELSE b

\* --------------------------------------------------------------- strings
\* Strings are sequences of one-character strings.

\* The printable ASCII characters, Ascii[i] having char code 31 + i (the double
\* quote, the backslash and the backtick are spelled out and occur in no modelled string).
Ascii ==
  << " ", "!", "dquote", "#", "$", "%", "&", "'", "(", ")", "*", "+",
     ",", "-", ".", "/", "0", "1", "2", "3", "4", "5", "6", "7",
     "8", "9", ":", ";", "<", "=", ">", "?", "@", "A", "B", "C",
     "D", "E", "F", "G", "H", "I", "J", "K", "L", "M", "N", "O",
     "P", "Q", "R", "S", "T", "U", "V", "W", "X", "Y", "Z", "[",
     "backslash", "]", "^", "_", "backtick", "a", "b", "c", "d", "e", "f", "g",
     "h", "i", "j", "k", "l", "m", "n", "o", "p", "q", "r", "s",
     "t", "u", "v", "w", "x", "y", "z", "{", "|", "}", "~" >>

\* String.prototype.charCodeAt for one character
CharCode(c) == 31 + (CHOOSE i \in 1..Len(Ascii) : Ascii[i] = c)

Digits == <<"0", "1", "2", "3", "4", "5", "6", "7", "8", "9">>
HexDigits == Digits \o <<"a", "b", "c", "d", "e", "f">>
IsDigit(c) == \E i \in 1..Len(Digits) : Digits[i] = c
DigitValue(c) == (CHOOSE i \in 1..Len(Digits) : Digits[i] = c) - 1

\* a ^ b and a | b on non-negative integers
RECURSIVE BitXor(_, _)
BitXor(a, b) ==
  IF a = 0 /\ b = 0 THEN 0
  ELSE (((a % 2) + (b % 2)) % 2) + 2 * BitXor(a \div 2, b \div 2)

RECURSIVE BitOr(_, _)
BitOr(a, b) ==
  IF a = 0 /\ b = 0 THEN 0
  ELSE (IF a % 2 = 1 \/ b % 2 = 1 THEN 1 ELSE 0) + 2 * BitOr(a \div 2, b \div 2)

\* s.indexOf(c), 0-based, -1 when absent
IndexOf(s, c) ==
  IF \E i \in 1..Len(s) : s[i] = c
  THEN (CHOOSE i \in 1..Len(s) : s[i] = c /\ \A j \in 1..(i - 1) : s[j] # c) - 1
  ELSE 0 - 1

\* s.substring(from, to) and s.substring(from), 0-based, for 0 <= from <= to
Substring(s, from, to) == SubSeq(s, from + 1, Min(to, Len(s)))
SubstringFrom(s, from) == SubSeq(s, from + 1, Len(s))

\* s.split(c): always at least one part; "" splits into <<"">>.
RECURSIVE Split(_, _)
Split(s, c) ==
  LET i == IndexOf(s, c)
  IN IF i = 0 - 1 THEN << s >>
     ELSE << Substring(s, 0, i) >> \o Split(SubstringFrom(s, i + 1), c)

\* parts.join(c)
RECURSIVE Join(_, _)
Join(parts, c) ==
  IF Len(parts) = 0 THEN << >>
  ELSE IF Len(parts) = 1 THEN parts[1]
  ELSE parts[1] \o << c >> \o Join(Tail(parts), c)

\* parseInt(value, 10): leading white space skipped, an optional sign, then
\* the longest prefix of decimal digits; NaN when that prefix is empty.
RECURSIVE SkipSpaces(_)
SkipSpaces(s) == IF Len(s) > 0 /\ Head(s) = " " THEN SkipSpaces(Tail(s)) ELSE s

RECURSIVE DigitPrefix(_)
DigitPrefix(s) ==
  IF Len(s) > 0 /\ IsDigit(Head(s)) THEN << Head(s) >> \o DigitPrefix(Tail(s)) ELSE << >>

RECURSIVE DecimalValue(_)
DecimalValue(ds) ==
  IF Len(ds) = 0 THEN 0
  ELSE 10 * DecimalValue(SubSeq(ds, 1, Len(ds) - 1)) + DigitValue(ds[Len(ds)])

parseInt(value) ==
  LET t == SkipSpaces(value)
      negative == Len(t) > 0 /\ Head(t) = "-"
      signed == Len(t) > 0 /\ Head(t) \in {"+", "-"}
      z == DigitPrefix(IF signed THEN Tail(t) ELSE t)
  IN IF Len(z) = 0 THEN NaN
     ELSE Num(IF negative THEN 0 - DecimalValue(z) ELSE DecimalValue(z))

\* `${n}` for an integer or NaN
RECURSIVE NatToString(_)
NatToString(n) ==
  IF n < 10 THEN << Digits[n + 1] >>
  ELSE NatToString(n \div 10) \o << Digits[(n % 10) + 1] >>

NumberToString(x) ==
  IF x.nan THEN << "N", "a", "N" >>
  ELSE IF x.v < 0 THEN << "-" >> \o NatToString(0 - x.v)
  ELSE NatToString(x.v)

\* Math.abs(a - b) > tol, false when a side is NaN
AbsDiffExceeds(a, b, tol) ==
  /\ ~a.nan /\ ~b.nan
  /\ (IF a.v >= b.v THEN a.v - b.v ELSE b.v - a.v) > tol

\* ------------------------------------------------------- error taxonomy
\* The classes of errors.ts, the built-in Error and TypeError, and "NonError"
\* for a thrown value that is no Error object at all (throw 'boom').
SdkErrorClasses ==
  { "ScellError", "ScellAuthenticationError", "ScellAuthorizationError",
    "ScellValidationError", "ScellRateLimitError", "ScellNotFoundError",
    "ScellServerError", "ScellInsufficientBalanceError", "ScellNetworkError",
    "ScellTimeoutError" }

ErrorClasses == SdkErrorClasses \cup {"Error", "TypeError", "NonError"}

\* class X extends Parent(X)
Parent(cls) ==
  IF cls \in SdkErrorClasses \ {"ScellError"} THEN "ScellError"
  ELSE IF cls \in {"ScellError", "TypeError"} THEN "Error"
  ELSE "none"

\* value instanceof cls, along the prototype chain (at most three links).
InstanceOf(e, cls) ==
  \/ e.cls = cls
  \/ Parent(e.cls) = cls
  \/ Parent(Parent(e.cls)) = cls

\* The name each constructor assigns (this.name = '...'); a non-Error value
\* has no name.
ConstructorName(cls) == IF cls = "NonError" THEN None ELSE Some(cls)

\* new <cls>(...): id tells apart the error objects of different invocations,
\* retryAfter is the field only ScellRateLimitError carries; header is the
\* Retry-After header of the response the error was made from, if any;
\* errors is the field only ScellValidationError carries.
NewError(cls, retryAfter, id) ==
  [cls |-> cls, name |-> ConstructorName(cls), retryAfter |-> retryAfter, id |-> id,
   header |-> None, errors |-> None]

\* Retry-After headers of a 429 response: absent (headers.get gives null),
\* empty, "2", "120", "0", "-1", and "abc", which is no number.
RetryAfterHeaders ==
  { None, Some(<< >>), Some(<< "2" >>), Some(<< "1", "2", "0" >>), Some(<< "0" >>),
    Some(<< "-", "1" >>), Some(<< "a", "b", "c" >>) }

\* retryAfter ? parseInt(retryAfter, 10) : undefined
\* (null and the empty string are falsy).
RetryAfterOf(header) ==
  IF header = None \/ OrElse(header, << >>) = << >> THEN None
  ELSE Some(parseInt(OrElse(header, << >>)))

\* parseApiError, case 429
RateLimitErrorOf(header, id) ==
  [ NewError("ScellRateLimitError", RetryAfterOf(header), id) EXCEPT !.header = header ]

\* The retryAfter values the rate-limit errors are constructed with: absent,
\* hints of 2 s and 120 s, zero, negative, and NaN.
RetryAfterValues == { RetryAfterOf(h) : h \in RetryAfterHeaders }

\* What one invocation of the operation may throw.
Throwable(id) ==
  { NewError(cls, None, id) : cls \in ErrorClasses \ {"ScellRateLimitError"} }
    \cup { RateLimitErrorOf(h, id) : h \in RetryAfterHeaders }

\* ------------------------------------------------------ retry.ts: options
DefaultMaxRetries == 3
DefaultBaseDelay == 1000
DefaultMaxDelay == 30000
\* jitterFactor 0.1, in percent
DefaultJitterPct == 10

\* RetryOptions values handed to withRetry; every field may be left undefined.
\* isRetryable, when given, is one of three custom predicates: () => true,
\* () => false, and (e) => e instanceof ScellValidationError.
MaxRetriesValues == {None} \cup { Some(n) : n \in (0 - 1)..MaxRetriesBound }
BaseDelayValues == {None, Some(10)}
MaxDelayValues == {None, Some(25)}
JitterPctValues == {None, Some(0), Some(100)}
IsRetryableValues == {None, Some("all"), Some("none"), Some("validation")}

RetryOptions ==
  [ maxRetries : MaxRetriesValues, baseDelay : BaseDelayValues,
    maxDelay : MaxDelayValues, jitterFactor : JitterPctValues,
    isRetryable : IsRetryableValues ]

\* ----------------------------------------------------------- classifier
IsRetryableErrorAnyScellError(error) == InstanceOf(error, "ScellError")

isRetryableError(error) ==
  IF InstanceOf(error, "ScellRateLimitError") THEN TRUE
  ELSE IF InstanceOf(error, "ScellServerError") THEN TRUE
  ELSE IF InstanceOf(error, "Error") /\ error.name = Some("ScellNetworkError") THEN TRUE
  ELSE FALSE

\* The custom predicates of IsRetryableValues.
CustomPredicate(p, error) ==
  IF p = "all" THEN TRUE
  ELSE IF p = "validation" THEN InstanceOf(error, "ScellValidationError")
  ELSE FALSE

\* options.isRetryable ?? isRetryableError, applied to error
ApplyIsRetryableAndDefault(opt, error) ==
  /\ isRetryableError(error)
  /\ (opt.isRetryable = None \/ CustomPredicate(OrElse(opt.isRetryable, "none"), error))

ApplyIsRetryable(opt, error) ==
  IF opt.isRetryable = None THEN isRetryableError(error)
  ELSE CustomPredicate(OrElse(opt.isRetryable, "none"), error)

\* ------------------------------------------------------- calculateDelay
RECURSIVE Pow2(_)
Pow2(n) == IF n <= 0 THEN 1 ELSE 2 * Pow2(n - 1)

\* calculateDelay(attempt, baseDelay, maxDelay, jitterFactor, retryAfter) with
\* Math.random() = r / RandDen and jitterFactor = jitterPct / 100:
\* floor(capped + capped * jitterFactor * (random * 2 - 1)).
CalculateDelayHintCapped(attempt, baseDelay, maxDelay, jitterPct, retryAfter, r) ==
  IF retryAfter # None /\ JsGt(OrElse(retryAfter, NaN), Num(0))
  THEN Min(OrElse(retryAfter, NaN).v * 1000, maxDelay)
  ELSE LET exponentialDelay == baseDelay * Pow2(attempt)
           cappedDelay == Min(exponentialDelay, maxDelay)
       IN (cappedDelay * 100 * RandDen + cappedDelay * jitterPct * (2 * r - RandDen))
            \div (100 * RandDen)

CalculateDelayAnyHint(attempt, baseDelay, maxDelay, jitterPct, retryAfter, r) ==
  IF retryAfter # None /\ ~OrElse(retryAfter, NaN).nan
  THEN OrElse(retryAfter, NaN).v * 1000
  ELSE LET exponentialDelay == baseDelay * Pow2(attempt)
           cappedDelay == Min(exponentialDelay, maxDelay)
       IN (cappedDelay * 100 * RandDen + cappedDelay * jitterPct * (2 * r - RandDen))
            \div (100 * RandDen)

CalculateDelayUncapped(attempt, baseDelay, maxDelay, jitterPct, retryAfter, r) ==
  IF retryAfter # None /\ JsGt(OrElse(retryAfter, NaN), Num(0))
  THEN OrElse(retryAfter, NaN).v * 1000
  ELSE LET exponentialDelay == baseDelay * Pow2(attempt)
       IN (exponentialDelay * 100 * RandDen
             + exponentialDelay * jitterPct * (2 * r - RandDen)) \div (100 * RandDen)

calculateDelay(attempt, baseDelay, maxDelay, jitterPct, retryAfter, r) ==
  IF retryAfter # None /\ JsGt(OrElse(retryAfter, NaN), Num(0))
  THEN OrElse(retryAfter, NaN).v * 1000
  ELSE LET exponentialDelay == baseDelay * Pow2(attempt)
           cappedDelay == Min(exponentialDelay, maxDelay)
       IN (cappedDelay * 100 * RandDen + cappedDelay * jitterPct * (2 * r - RandDen))
            \div (100 * RandDen)

\* --------------------------------------------------------------- state
VARIABLES
  pc,          \* withRetry: "idle", "calling" (awaiting fn()), "sleeping",
               \* "resolved", "rejected"
  options,     \* the RetryOptions of the call
  attempt,     \* loop variable of withRetry
  lastError,   \* withRetry's lastError (None = undefined)
  delay,       \* the delay of the sleep in progress / last slept
  prevDelay,   \* the delay of the sleep before that one and whether a retry
               \* hint set it (None while fewer than two sleeps were started)
  hinted,      \* whether a retry hint set delay
  result,      \* the value withRetry resolved to (None before)
  rejection,   \* the value withRetry rejected with (None = undefined)
  calls,       \* number of invocations of fn so far
  sleeps,      \* number of sleeps started so far
  failures,    \* number of invocations of fn that threw
  lastOutcome, \* what the last invocation of fn did: "none", "returned", "threw"
  lastRaised,  \* the error object the last failing invocation threw
  lastReturned,\* the value the last successful invocation returned
  verdict,     \* the classifier's answer for lastRaised
  allRetryable,\* every error thrown so far was classified retryable
  \* --- webhook verification (webhook-verify.ts)
  now,         \* Math.floor(Date.now() / 1000)
  constructed, \* what constructTestEvent returned, with the secret it used
  reqPayload,  \* raw body of the request handed to the verifier
  reqHeader,   \* its X-Scell-Signature header
  whSecret,    \* the secret the verifier is called with
  toleranceOpt,\* options.tolerance of the verification calls
  hasRequire,  \* whether require('crypto') resolves in this runtime
  outcome,     \* verifySignature on the request: "none", "true", "false", "rejects"
  outcomeSync, \* verifySignatureSync: "none", "true", "false", "throws"
  \* --- secureCompare called on its own (webhook-verify.ts)
  cmpA,        \* first argument
  cmpB,        \* second argument
  cmpResult,   \* "none" before the call, then "true" or "false"
  cmpSteps,    \* iterations of the comparison loop the call executed
  \* --- HttpClient (client.ts)
  hClient,     \* the constructed client's fields (None before construction)
  hReq,        \* the request in progress: method and RequestOptions
  hPc,         \* "idle", "fetching" (awaiting fetch), "sleeping", "resolved",
               \* "rejected"
  hViaRetry,   \* whether the request runs inside withRetry
  hAttempt,    \* withRetry's attempt of the request
  hLastError,  \* withRetry's lastError of the request
  hDelay,      \* the delay of the request's sleep in progress / last slept
  hResult,     \* the value the request resolved to
  hRejection,  \* the error the request rejected with
  hFetches,    \* number of calls of the transport (fetchFn) for the request
  hSleeps,     \* number of backoff sleeps started for the request
  hTimers,     \* the timeout timers set and neither cleared nor fired: the
               \* attempt each belongs to and the delay it was set with
  hControllerAborted, \* controller.signal.aborted of the attempt in flight
  hTimedOut,   \* the timer of the attempt in flight has run its callback
  hFetchSignal,\* the signal handed to fetch: "controller", "fresh" or "none"
  hSignalAborted, \* the caller's options.signal has fired
  hAbortPhase, \* hPc at the moment the caller's signal fired ("none" before)
  hFetchesAtAbort, \* hFetches at that moment
  hLastStatus, \* status of the last response received (0 before any)
  hLastAnswer, \* how the transport ended the last attempt: the body kind of
               \* its response or the kind of its failure ("none" before)
  \* --- concurrent withRetry calls (retry.ts): one entry per call
  cPc,         \* position of each call, as pc
  cOptions,    \* the options of each call
  cAttempt,    \* each call's loop variable attempt
  cLastError,  \* each call's lastError
  cDelays,     \* the delays each call has slept for, in order
  cResult,     \* the value each call resolved to
  cRejection,  \* the value each call rejected with
  cCalls,      \* number of invocations of each call's operation
  cHistory,    \* what each call's operation and timer did so far, in order
  \* --- the requests the SDK clients build (index.ts, tenant-client.ts,
  \* client.ts)
  bClient,     \* the SDK client constructed and the fields of its HttpClient
  bReq,        \* the request in progress: entry point, path, query, headers
  bSent,       \* the arguments of the last call of fetchFn: url and headers
  bSends       \* number of calls of fetchFn made for the request

retryVars == << pc, options, attempt, lastError, delay, prevDelay, hinted, result,
                rejection, calls, sleeps, failures, lastOutcome, lastRaised,
                lastReturned, verdict, allRetryable >>

whVars == << now, constructed, reqPayload, reqHeader, whSecret, toleranceOpt,
             hasRequire, outcome, outcomeSync >>

cmpVars == << cmpA, cmpB, cmpResult, cmpSteps >>

httpVars == << hClient, hReq, hPc, hViaRetry, hAttempt, hLastError, hDelay, hResult,
               hRejection, hFetches, hSleeps, hTimers, hControllerAborted, hTimedOut,
               hFetchSignal, hSignalAborted, hAbortPhase, hFetchesAtAbort,
               hLastStatus, hLastAnswer >>

concVars == << cPc, cOptions, cAttempt, cLastError, cDelays, cResult, cRejection,
               cCalls, cHistory >>

buildVars == << bClient, bReq, bSent, bSends >>

\* What the actions of one component leave alone.
nonRetryVars == << whVars, cmpVars, httpVars, concVars, buildVars >>
nonWebhookVars == << retryVars, cmpVars, httpVars, concVars, buildVars >>
nonCmpVars == << retryVars, whVars, httpVars, concVars, buildVars >>
nonHttpVars == << retryVars, whVars, cmpVars, concVars, buildVars >>
nonConcVars == << retryVars, whVars, cmpVars, httpVars, buildVars >>
nonBuildVars == << retryVars, whVars, cmpVars, httpVars, concVars >>

vars == << retryVars, whVars, cmpVars, httpVars, concVars, buildVars >>

\* The withRetry calls in progress at the same time.
CallIds == { 1, 2 }

\* The clock value at which the model starts (the signing time of the
\* specification's scenario).
SignTime == 1700000000

Secrets == { << >>, << "w", "s" >>, << "w", "z" >> }

\* The resolved options of the call (lines 112-115).
maxRetries == OrElse(options.maxRetries, DefaultMaxRetries)
baseDelay == OrElse(options.baseDelay, DefaultBaseDelay)
maxDelay == OrElse(options.maxDelay, DefaultMaxDelay)
jitterPct == OrElse(options.jitterFactor, DefaultJitterPct)

Init ==
  /\ pc = "idle"
  /\ options = [ maxRetries |-> None, baseDelay |-> None, maxDelay |-> None,
                 jitterFactor |-> None, isRetryable |-> None ]
  /\ attempt = 0
  /\ lastError = None
  /\ delay = 0
  /\ prevDelay = None
  /\ hinted = FALSE
  /\ result = None
  /\ rejection = None
  /\ calls = 0
  /\ sleeps = 0
  /\ failures = 0
  /\ lastOutcome = "none"
  /\ lastRaised = None
  /\ lastReturned = None
  /\ verdict = FALSE
  /\ allRetryable = TRUE
  /\ now = SignTime
  /\ constructed = None
  /\ reqPayload = << >>
  /\ reqHeader = << >>
  /\ whSecret = << "w", "s" >>
  /\ toleranceOpt = None
  /\ hasRequire \in BOOLEAN
  /\ outcome = "none"
  /\ outcomeSync = "none"
  /\ cmpA = << >>
  /\ cmpB = << >>
  /\ cmpResult = "none"
  /\ cmpSteps = 0
  /\ hClient = None
  /\ hReq = None
  /\ hPc = "idle"
  /\ hViaRetry = FALSE
  /\ hAttempt = 0
  /\ hLastError = None
  /\ hDelay = 0
  /\ hResult = None
  /\ hRejection = None
  /\ hFetches = 0
  /\ hSleeps = 0
  /\ hTimers = {}
  /\ hControllerAborted = FALSE
  /\ hTimedOut = FALSE
  /\ hFetchSignal = "none"
  /\ hSignalAborted = FALSE
  /\ hAbortPhase = "none"
  /\ hFetchesAtAbort = 0
  /\ hLastStatus = 0
  /\ hLastAnswer = "none"
  /\ cPc = [ c \in CallIds |-> "idle" ]
  /\ cOptions = [ c \in CallIds |-> [ maxRetries |-> None, baseDelay |-> None,
                                       maxDelay |-> None, jitterFactor |-> None,
                                       isRetryable |-> None ] ]
  /\ cAttempt = [ c \in CallIds |-> 0 ]
  /\ cLastError = [ c \in CallIds |-> None ]
  /\ cDelays = [ c \in CallIds |-> << >> ]
  /\ cResult = [ c \in CallIds |-> None ]
  /\ cRejection = [ c \in CallIds |-> None ]
  /\ cCalls = [ c \in CallIds |-> 0 ]
  /\ cHistory = [ c \in CallIds |-> << >> ]
  /\ bClient = None
  /\ bReq = None
  /\ bSent = None
  /\ bSends = 0

\* for (...; attempt <= maxRetries; ...)
LoopConditionStrict(a, mr) == a < mr

LoopCondition(a, mr) == a <= mr

\* if (attempt >= maxRetries || !isRetryable(error)) throw error
ShouldThrowIgnoringClassifier(a, mr, retryable) == a >= mr

ShouldThrowIgnoringBound(a, mr, retryable) == ~retryable

ShouldThrow(a, mr, retryable) == a >= mr \/ ~retryable

\* throw error (line 128): the caught error object itself
ThrownWrapped(error) == [error EXCEPT !.cls = "Error", !.name = Some("Error"), !.id = 0]

Thrown(error) == error

\* Loop head at attempt a: either fn is invoked (line 122) or the loop is
\* left and lastError is thrown (line 150).
LoopHead(a) ==
  IF LoopCondition(a, maxRetries')
  THEN /\ pc' = "calling"
       /\ calls' = calls + 1
       /\ rejection' = rejection
  ELSE /\ pc' = "rejected"
       /\ calls' = calls
       /\ rejection' = lastError'

\* withRetry(fn, options): entry up to the first await.
WithRetry ==
  /\ pc = "idle"
  /\ UNCHANGED nonRetryVars
  /\ \E o \in RetryOptions : options' = o
  /\ attempt' = 0
  /\ lastError' = None
  /\ LoopHead(0)
  /\ UNCHANGED << delay, prevDelay, hinted, result, sleeps, failures, lastOutcome,
                  lastRaised, lastReturned, verdict, allRetryable >>

\* await fn() fulfils with a value: return it.
FnResolvesAndContinues ==
  /\ pc = "calling"
  /\ UNCHANGED nonRetryVars
  /\ lastReturned' = Some([val |-> "ok", id |-> calls])
  /\ lastOutcome' = "returned"
  /\ IF attempt < maxRetries
     THEN /\ pc' = "calling"
          /\ calls' = calls + 1
          /\ attempt' = attempt + 1
          /\ result' = result
     ELSE /\ pc' = "resolved"
          /\ result' = lastReturned'
          /\ UNCHANGED << calls, attempt >>
  /\ UNCHANGED << options, lastError, delay, prevDelay, hinted, rejection, sleeps,
                  failures, lastRaised, verdict, allRetryable >>

FnResolves ==
  /\ pc = "calling"
  /\ UNCHANGED nonRetryVars
  /\ lastReturned' = Some([val |-> "ok", id |-> calls])
  /\ lastOutcome' = "returned"
  /\ result' = lastReturned'
  /\ pc' = "resolved"
  /\ UNCHANGED << options, attempt, lastError, delay, prevDelay, hinted, rejection,
                  calls, sleeps, failures, lastRaised, verdict, allRetryable >>

\* await fn() rejects with error: the catch block (lines 123-146).
FnRejects ==
  /\ pc = "calling"
  /\ UNCHANGED nonRetryVars
  /\ \E error \in Throwable(calls), r \in 0..(RandDen - 1) :
       LET retryable == ApplyIsRetryable(options, error)
           retryAfter == IF InstanceOf(error, "ScellRateLimitError")
                         THEN error.retryAfter ELSE None
       IN /\ lastRaised' = Some(error)
          /\ lastOutcome' = "threw"
          /\ failures' = failures + 1
          /\ lastError' = Some(error)
          /\ verdict' = retryable
          /\ allRetryable' = (allRetryable /\ retryable)
          /\ IF ShouldThrow(attempt, maxRetries, retryable)
             THEN /\ pc' = "rejected"
                  /\ rejection' = Some(Thrown(error))
                  /\ UNCHANGED << delay, prevDelay, hinted, sleeps >>
             ELSE /\ pc' = "sleeping"
                  /\ delay' = calculateDelay(attempt, baseDelay, maxDelay,
                                             jitterPct, retryAfter, r)
                  /\ hinted' = (retryAfter # None /\ JsGt(OrElse(retryAfter, NaN), Num(0)))
                  /\ prevDelay' = IF sleeps = 0 THEN None
                                  ELSE Some([ms |-> delay, hinted |-> hinted])
                  /\ sleeps' = sleeps + 1
                  /\ rejection' = rejection
  /\ UNCHANGED << options, attempt, result, calls, lastReturned >>

\* The sleep's timer fires: attempt++ and the loop head runs again.
SleepDone ==
  /\ pc = "sleeping"
  /\ UNCHANGED nonRetryVars
  /\ attempt' = attempt + 1
  /\ UNCHANGED << options, lastError >>
  /\ LoopHead(attempt + 1)
  /\ UNCHANGED << delay, prevDelay, hinted, result, sleeps, failures, lastOutcome,
                  lastRaised, lastReturned, verdict, allRetryable >>

Next == WithRetry \/ FnResolves \/ FnRejects \/ SleepDone

Spec == Init /\ [][Next]_vars

\* ------------------------------------------------------ retry properties
Settled == pc \in {"resolved", "rejected"}
TheLastRaised == CHOOSE e \in lastRaised : TRUE
LastRaisedClass == IF lastRaised = None THEN "none" ELSE TheLastRaised.cls

\* C1: withRetry never invokes the operation more than maxRetries + 1 times
\* (4 with the default options, exactly 1 with maxRetries = 0), and a call in
\* which every invocation failed with a retryable error ends after exactly
\* maxRetries + 1 invocations.
C1_AttemptBound ==
  /\ calls <= maxRetries + 1
  /\ (options.maxRetries = None) => calls <= 4
  /\ (Settled /\ maxRetries = 0) => calls = 1
  /\ (pc = "rejected" /\ failures >= 1 /\ allRetryable) =>
        (calls = maxRetries + 1 /\ failures = calls)

C1_Witness ==
  /\ pc = "rejected" /\ options.maxRetries = None
  /\ allRetryable /\ failures = 4 /\ calls = 4

\* C2: once an invocation has failed with an error classified non-retryable,
\* withRetry has rejected with that error, no sleep followed the failure and
\* no further invocation was made; when it is the first failure the operation
\* was invoked exactly once and nothing was slept.
C2_NonRetryableOnce ==
  (lastOutcome = "threw" /\ ~verdict) =>
     /\ pc = "rejected"
     /\ rejection = lastRaised
     /\ calls = failures
     /\ sleeps = failures - 1
     /\ (failures = 1 => (calls = 1 /\ sleeps = 0))

C2_Witness ==
  /\ pc = "rejected" /\ lastOutcome = "threw" /\ ~verdict
  /\ LastRaisedClass = "ScellValidationError"
  /\ options.maxRetries = Some(3) /\ options.isRetryable = None
  /\ calls = 1 /\ sleeps = 0

\* C3: with the default classifier an error is classified retryable exactly
\* when it is a rate-limit, server or network error; validation,
\* authentication, authorization, not-found, insufficient-balance, timeout,
\* generic ScellError, other Error values and non-Error values are not.
C3_DefaultClassifier ==
  (options.isRetryable = None /\ lastRaised # None) =>
     (verdict <=> LastRaisedClass \in
        {"ScellRateLimitError", "ScellServerError", "ScellNetworkError"})

C3_Witness ==
  /\ options.isRetryable = None /\ lastOutcome = "threw"
  /\ LastRaisedClass = "ScellTimeoutError" /\ ~verdict /\ pc = "rejected"

\* C4: once an invocation has returned, withRetry has resolved to that very
\* value, the invocations made are the failed ones plus this one, and one
\* sleep was taken per earlier failure.
C4_SuccessStops ==
  (lastOutcome = "returned") =>
     /\ pc = "resolved"
     /\ result = lastReturned
     /\ calls = failures + 1
     /\ sleeps = failures

C4_Witness ==
  /\ pc = "resolved" /\ options.maxRetries = Some(2)
  /\ failures = 2 /\ calls = 3
  /\ result = Some([val |-> "ok", id |-> 3])

\* C5: when withRetry has rejected after at least one invocation, the
\* rejection value is the error object thrown by the last invocation.
C5_LastErrorUnchanged ==
  (pc = "rejected" /\ calls >= 1) =>
     (lastOutcome = "threw" /\ rejection = lastRaised)

C5_Witness ==
  /\ pc = "rejected" /\ calls = 3 /\ failures = 3 /\ verdict
  /\ rejection = lastRaised /\ TheLastRaised.id = 3

\* The retry hint the last failing invocation's error carries, in seconds
\* (None when it is no rate-limit error or carries none).
LastRetryAfter ==
  IF lastRaised # None /\ LastRaisedClass = "ScellRateLimitError"
  THEN TheLastRaised.retryAfter ELSE None
LastHintSeconds == OrElse(LastRetryAfter, NaN)
LastHasPositiveHint ==
  LastRetryAfter # None /\ ~LastHintSeconds.nan /\ LastHintSeconds.v > 0

\* d = floor(x * (1 + (j / 100) * (2 * r / RandDen - 1))) for some draw r
IsJitteredFloorOf(d, x, j) ==
  \E r \in 0..(RandDen - 1) :
    LET scaled == x * (100 * RandDen + j * (2 * r - RandDen))
    IN d * 100 * RandDen <= scaled /\ scaled < (d + 1) * 100 * RandDen

\* C12: while withRetry sleeps after a rate-limit error carrying a retry hint
\* of s > 0 seconds, the delay is exactly s * 1000 ms, whatever the attempt
\* index, baseDelay, maxDelay and jitterFactor (2 s gives 2000 ms).
C12_HintDelay ==
  (pc = "sleeping" /\ LastHasPositiveHint) =>
     /\ delay = LastHintSeconds.v * 1000
     /\ (LastHintSeconds.v = 2 => delay = 2000)

C12_Witness ==
  /\ pc = "sleeping" /\ LastHasPositiveHint /\ LastHintSeconds.v = 2
  /\ attempt = 1 /\ options.maxDelay = Some(25) /\ options.jitterFactor = Some(100)
  /\ options.baseDelay = None
  /\ delay = 2000

C14_DelayBound ==
  (pc = "sleeping") =>
     (0 <= delay /\ delay * 100 <= maxDelay * (100 + jitterPct))

\* C15: with jitterFactor = 0 and no retry hint the delay of the k-th sleep
\* is min(baseDelay * 2^(k-1), maxDelay): the first is baseDelay (when that
\* does not exceed maxDelay), a delay is never below the one before it, and
\* after a delay of maxDelay the next one is maxDelay again.
C15_ExponentialNoJitter ==
  (pc = "sleeping" /\ jitterPct = 0 /\ ~hinted) =>
     /\ attempt = sleeps - 1
     /\ delay = Min(baseDelay * Pow2(sleeps - 1), maxDelay)
     /\ (sleeps = 1 /\ baseDelay <= maxDelay) => delay = baseDelay
     /\ \A prev \in prevDelay :
          ~prev.hinted => /\ delay >= prev.ms
                          /\ (prev.ms = maxDelay => delay = maxDelay)

C15_Witness ==
  /\ pc = "sleeping" /\ options.jitterFactor = Some(0) /\ ~hinted
  /\ options.baseDelay = Some(10) /\ options.maxDelay = Some(25)
  /\ sleeps = 3 /\ delay = 25
  /\ prevDelay = Some([ms |-> 20, hinted |-> FALSE])

\* C17: with a custom isRetryable predicate the verdict on every error is
\* the predicate's answer: an error it rejects, also a rate-limit, server or
\* network error, ends the call at once with that error; an error it accepts,
\* also a validation error, is retried, and a call in which it accepted every
\* error rejects only after maxRetries + 1 invocations.
C17_CustomPredicateDecides ==
  (options.isRetryable # None /\ lastOutcome = "threw") =>
     /\ verdict = CustomPredicate(OrElse(options.isRetryable, "none"), TheLastRaised)
     /\ ~verdict => (pc = "rejected" /\ rejection = lastRaised /\ calls = failures)
     /\ (~verdict /\ failures = 1) => (calls = 1 /\ sleeps = 0)
     /\ (verdict /\ failures <= maxRetries) => (pc \in {"sleeping", "calling"})
     /\ (pc = "rejected" /\ allRetryable) => calls = maxRetries + 1

C17_Witness ==
  /\ options.isRetryable = Some("validation") /\ options.maxRetries = Some(2)
  /\ pc = "rejected" /\ calls = 3 /\ failures = 3 /\ allRetryable
  /\ LastRaisedClass = "ScellValidationError"

\* C28: in a call that invoked the operation, invocations and sleeps
\* alternate: while the k-th invocation is awaited and once the call has
\* settled after k invocations, k - 1 sleeps were started; during a sleep as
\* many sleeps as invocations were started, the invocation before it failed,
\* and its delay is calculateDelay at attempt index (sleep number - 1) with
\* the retry hint of that failure's error.
C28_SleepsAlternate ==
  (calls >= 1) =>
     /\ (pc \in {"calling", "resolved", "rejected"}) => sleeps = calls - 1
     /\ (pc = "sleeping") =>
          /\ sleeps = calls
          /\ lastOutcome = "threw"
          /\ attempt = sleeps - 1
          /\ \E r \in 0..(RandDen - 1) :
               delay = calculateDelay(sleeps - 1, baseDelay, maxDelay, jitterPct,
                                      LastRetryAfter, r)

C28_Witness ==
  /\ pc = "rejected" /\ calls = 3 /\ sleeps = 2 /\ failures = 3
  /\ options.maxRetries = Some(2) /\ allRetryable

\* C29: a settled call of withRetry has invoked the operation at least once,
\* and when it rejected, the rejection is an error an invocation raised,
\* never undefined.
C29_InvokedAtLeastOnce ==
  Settled =>
     /\ calls >= 1
     /\ (pc = "rejected") => (rejection # None /\ rejection = lastRaised)

\* ------------------------------------------- concurrent withRetry calls
\* Every call of withRetry has its own activation: options, attempt and
\* lastError are parameters and locals of the async function.
ConcOptions ==
  { [ maxRetries |-> Some(n), baseDelay |-> None, maxDelay |-> None,
      jitterFactor |-> None, isRetryable |-> None ] : n \in { 1, 2 } }

\* What the operation of call c may throw at its n-th invocation; owner names
\* the call whose operation created the error object.
ConcThrowable(c, n) ==
  { [ owner |-> c, error |-> e ] :
      e \in { NewError("ScellServerError", None, n),
              NewError("ScellValidationError", None, n),
              RateLimitErrorOf(Some(<< "2" >>), n) } }

\* The loop variable a call reads: its own.
AttemptOfFirstCall(c) == cAttempt[1]

AttemptOf(c) == cAttempt[c]

cMaxRetries(c) == OrElse(cOptions[c].maxRetries, DefaultMaxRetries)

\* withRetry(fn, options) of call c: entry up to the first await.
ConcWithRetry ==
  \E c \in CallIds, o \in ConcOptions :
    /\ cPc[c] = "idle"
    /\ cOptions' = [ cOptions EXCEPT ![c] = o ]
    /\ cAttempt' = [ cAttempt EXCEPT ![c] = 0 ]
    /\ cLastError' = [ cLastError EXCEPT ![c] = None ]
    /\ IF LoopCondition(0, OrElse(o.maxRetries, DefaultMaxRetries))
       THEN /\ cPc' = [ cPc EXCEPT ![c] = "calling" ]
            /\ cCalls' = [ cCalls EXCEPT ![c] = @ + 1 ]
            /\ cRejection' = cRejection
       ELSE /\ cPc' = [ cPc EXCEPT ![c] = "rejected" ]
            /\ cCalls' = cCalls
            /\ cRejection' = [ cRejection EXCEPT ![c] = None ]
    /\ UNCHANGED << cDelays, cResult, cHistory >>
    /\ UNCHANGED nonConcVars

\* await fn() of call c fulfils.
ConcFnResolves ==
  \E c \in CallIds :
    /\ cPc[c] = "calling"
    /\ LET value == [ owner |-> c, id |-> cCalls[c] ]
       IN /\ cResult' = [ cResult EXCEPT ![c] = Some(value) ]
          /\ cHistory' = [ cHistory EXCEPT
                             ![c] = Append(@, [ kind |-> "returned", what |-> Some(value),
                                                r |-> 0 ]) ]
    /\ cPc' = [ cPc EXCEPT ![c] = "resolved" ]
    /\ UNCHANGED << cOptions, cAttempt, cLastError, cDelays, cRejection, cCalls >>
    /\ UNCHANGED nonConcVars

\* await fn() of call c rejects: the catch block.
ConcFnRejects ==
  \E c \in CallIds :
    /\ cPc[c] = "calling"
    /\ \E thrown \in ConcThrowable(c, cCalls[c]), r \in 0..(RandDen - 1) :
         LET error == thrown.error
             o == cOptions[c]
             retryable == ApplyIsRetryable(o, error)
             retryAfter == IF InstanceOf(error, "ScellRateLimitError")
                           THEN error.retryAfter ELSE None
         IN /\ cLastError' = [ cLastError EXCEPT ![c] = Some(thrown) ]
            /\ IF ShouldThrow(AttemptOf(c), cMaxRetries(c), retryable)
               THEN /\ cPc' = [ cPc EXCEPT ![c] = "rejected" ]
                    /\ cRejection' = [ cRejection EXCEPT ![c] = Some(thrown) ]
                    /\ cDelays' = cDelays
                    /\ cHistory' = [ cHistory EXCEPT
                                       ![c] = Append(@, [ kind |-> "threw",
                                                          what |-> Some(thrown), r |-> 0 ]) ]
               ELSE /\ cPc' = [ cPc EXCEPT ![c] = "sleeping" ]
                    /\ cRejection' = cRejection
                    /\ cDelays' = [ cDelays EXCEPT
                                      ![c] = Append(@, calculateDelay(AttemptOf(c),
                                               OrElse(o.baseDelay, DefaultBaseDelay),
                                               OrElse(o.maxDelay, DefaultMaxDelay),
                                               OrElse(o.jitterFactor, DefaultJitterPct),
                                               retryAfter, r)) ]
                    /\ cHistory' = [ cHistory EXCEPT
                                       ![c] = Append(@, [ kind |-> "threw",
                                                          what |-> Some(thrown), r |-> r ]) ]
    /\ UNCHANGED << cOptions, cAttempt, cResult, cCalls >>
    /\ UNCHANGED nonConcVars

\* The sleep of call c ends: attempt++ and the loop head.
ConcSleepDone ==
  \E c \in CallIds :
    /\ cPc[c] = "sleeping"
    /\ cAttempt' = [ cAttempt EXCEPT ![c] = AttemptOf(c) + 1 ]
    /\ IF LoopCondition(AttemptOf(c) + 1, cMaxRetries(c))
       THEN /\ cPc' = [ cPc EXCEPT ![c] = "calling" ]
            /\ cCalls' = [ cCalls EXCEPT ![c] = @ + 1 ]
            /\ cRejection' = cRejection
       ELSE /\ cPc' = [ cPc EXCEPT ![c] = "rejected" ]
            /\ cCalls' = cCalls
            /\ cRejection' = [ cRejection EXCEPT ![c] = cLastError[c] ]
    /\ cHistory' = [ cHistory EXCEPT
                       ![c] = Append(@, [ kind |-> "woke", what |-> None, r |-> 0 ]) ]
    /\ UNCHANGED << cOptions, cLastError, cDelays, cResult >>
    /\ UNCHANGED nonConcVars

ConcNext == ConcWithRetry \/ ConcFnResolves \/ ConcFnRejects \/ ConcSleepDone

ConcSpec == Init /\ [][ConcNext]_vars

\* One call running alone: its state after its operation and timer did what
\* history tells, computed from the options and the history only.
AloneStart(o) ==
  [ pc |-> "calling", attempt |-> 0, lastError |-> None, delays |-> << >>,
    result |-> None, rejection |-> None, calls |-> 1 ]

AloneStep(o, st, ev) ==
  LET mr == OrElse(o.maxRetries, DefaultMaxRetries)
  IN IF ev.kind = "returned"
     THEN [ st EXCEPT !.pc = "resolved", !.result = ev.what ]
     ELSE IF ev.kind = "threw"
     THEN LET thrown == CHOOSE t \in ev.what : TRUE
              hint == IF thrown.error.cls = "ScellRateLimitError"
                      THEN thrown.error.retryAfter ELSE None
          IN IF st.attempt >= mr \/ ~ApplyIsRetryable(o, thrown.error)
             THEN [ st EXCEPT !.pc = "rejected", !.lastError = ev.what,
                              !.rejection = ev.what ]
             ELSE [ st EXCEPT !.pc = "sleeping", !.lastError = ev.what,
                              !.delays = Append(@, calculateDelay(st.attempt,
                                           OrElse(o.baseDelay, DefaultBaseDelay),
                                           OrElse(o.maxDelay, DefaultMaxDelay),
                                           OrElse(o.jitterFactor, DefaultJitterPct),
                                           hint, ev.r)) ]
     ELSE [ st EXCEPT !.pc = "calling", !.attempt = @ + 1, !.calls = @ + 1 ]

RECURSIVE AloneRun(_, _, _)
AloneRun(o, st, history) ==
  IF Len(history) = 0 THEN st
  ELSE AloneRun(o, AloneStep(o, st, Head(history)), Tail(history))

\* C18: under every interleaving each call is, after its operation and
\* timer did what they did, exactly where it would be had it run alone:
\* same position, attempt counter, number of invocations, delays, last
\* error and outcome; and the errors it holds were thrown by its own
\* operation.
C18_CallsIndependent ==
  \A c \in CallIds :
    (cPc[c] # "idle") =>
       LET alone == AloneRun(cOptions[c], AloneStart(cOptions[c]), cHistory[c])
       IN /\ cPc[c] = alone.pc
          /\ cAttempt[c] = alone.attempt
          /\ cCalls[c] = alone.calls
          /\ cDelays[c] = alone.delays
          /\ cLastError[c] = alone.lastError
          /\ cResult[c] = alone.result
          /\ cRejection[c] = alone.rejection
          /\ \A e \in cLastError[c] \cup cRejection[c] : e.owner = c
          /\ \A v \in cResult[c] : v.owner = c

C18_Witness ==
  /\ cPc[1] = "sleeping" /\ cAttempt[1] = 0 /\ cCalls[1] = 1
  /\ cPc[2] = "rejected" /\ cAttempt[2] = 2 /\ cCalls[2] = 3
  /\ cOptions[1].maxRetries = Some(1) /\ cOptions[2].maxRetries = Some(2)
  /\ Len(cDelays[2]) = 2

\* ================================================================ webhooks

\* ------------------------------------------------ webhook-verify.ts: pure
\* Digest size of the modelled HMAC in bytes (SHA-256 has 32).
DigestBytes == 3
\* tolerance = 300
DefaultTolerance == 300

\* parseSignatureHeader: the loop over header.split(','); a later t= or v1=
\* part overrides an earlier one, parts without '=' and other keys are skipped.
RECURSIVE ParseParts(_, _, _)
ParseParts(parts, timestamp, signature) ==
  IF Len(parts) = 0 THEN [timestamp |-> timestamp, signature |-> signature]
  ELSE LET part == Head(parts)
           splitIndex == IndexOf(part, "=")
           key == Substring(part, 0, splitIndex)
           value == SubstringFrom(part, splitIndex + 1)
       IN IF splitIndex = 0 - 1 THEN ParseParts(Tail(parts), timestamp, signature)
          ELSE IF key = << "t" >>
            THEN ParseParts(Tail(parts), Some(parseInt(value)), signature)
          ELSE IF key = << "v", "1" >>
            THEN ParseParts(Tail(parts), timestamp, Some(value))
          ELSE ParseParts(Tail(parts), timestamp, signature)

\* null (None) when t= or v1= never occurred; a t= value that is no number
\* yields timestamp NaN, which is not undefined.
parseSignatureHeader(header) ==
  LET p == ParseParts(Split(header, ","), None, None)
  IN IF p.timestamp = None \/ p.signature = None THEN None
     ELSE Some([ timestamp |-> OrElse(p.timestamp, NaN),
                 signature |-> OrElse(p.signature, << >>) ])

\* TextEncoder.encode / Buffer.from on an ASCII string
Utf8(s) == [ i \in 1..Len(s) |-> CharCode(s[i]) ]

\* HMAC-SHA256(key, message), abstracted to a keyed hash of DigestBytes
\* bytes: byte i is a polynomial hash of the key, a separator and the message.
RECURSIVE Absorb(_, _, _)
Absorb(bytes, acc, i) ==
  IF Len(bytes) = 0 THEN acc
  ELSE Absorb(Tail(bytes), (acc * (29 + 2 * i) + Head(bytes) + i) % 251, i)

Hmac(keyBytes, messageBytes) ==
  [ i \in 1..DigestBytes |->
      Absorb(messageBytes, (Absorb(keyBytes, 7 * i, i) * 13 + 199) % 251, i) ]

\* bytes.map(b => b.toString(16).padStart(2, '0')).join('')
RECURSIVE ToHex(_)
ToHex(bytes) ==
  IF Len(bytes) = 0 THEN << >>
  ELSE << HexDigits[(Head(bytes) \div 16) + 1], HexDigits[(Head(bytes) % 16) + 1] >>
         \o ToHex(Tail(bytes))

\* `${timestamp}.${payload}`
SignedPayload(payload, timestamp) == NumberToString(timestamp) \o << "." >> \o payload

\* computeSignature: crypto.subtle.importKey rejects a zero-length HMAC key
\* with a DataError; otherwise the lowercase hex of the HMAC.
computeSignature(payload, timestamp, secret) ==
  IF Len(Utf8(secret)) = 0 THEN [ok |-> FALSE, hex |-> << >>]
  ELSE [ok |-> TRUE,
        hex |-> ToHex(Hmac(Utf8(secret), Utf8(SignedPayload(payload, timestamp))))]

\* secureCompare: result |= a.charCodeAt(i) ^ b.charCodeAt(i)
RECURSIVE XorAccumulate(_, _, _, _)
XorAccumulate(a, b, i, acc) ==
  IF i > Len(a) THEN acc
  ELSE XorAccumulate(a, b, i + 1, BitOr(acc, BitXor(CharCode(a[i]), CharCode(b[i]))))

\* The number of times the body of  for (let i = 0; i < a.length; i++)  runs
\* from index i on: the loop has no break and no return.
RECURSIVE CompareIterationsEarlyExit(_, _, _)
CompareIterationsEarlyExit(a, b, i) ==
  IF i > Len(a) THEN 0
  ELSE IF a[i] # b[i] THEN 1
  ELSE 1 + CompareIterationsEarlyExit(a, b, i + 1)

RECURSIVE CompareIterations(_, _, _)
CompareIterations(a, b, i) ==
  IF i > Len(a) THEN 0 ELSE 1 + CompareIterations(a, b, i + 1)

\* Loop iterations of one secureCompare(a, b) call: none after the early
\* return on a length mismatch.
secureCompareSteps(a, b) ==
  IF Len(a) # Len(b) THEN 0 ELSE CompareIterations(a, b, 1)

SecureComparePrefix(a, b) ==
  XorAccumulate(SubSeq(a, 1, Min(Len(a), Len(b))), b, 1, 0) = 0

secureCompare(a, b) ==
  IF Len(a) # Len(b) THEN FALSE ELSE XorAccumulate(a, b, 1, 0) = 0

\* The tolerance test of lines 172-175 / 211-214.
OutsideToleranceOneSided(nowSec, timestamp, tolerance) ==
  ~timestamp.nan /\ nowSec - timestamp.v > tolerance

OutsideToleranceStrict(nowSec, timestamp, tolerance) ==
  ~timestamp.nan
    /\ (IF nowSec >= timestamp.v THEN nowSec - timestamp.v ELSE timestamp.v - nowSec)
         >= tolerance

OutsideTolerance(nowSec, timestamp, tolerance) ==
  AbsDiffExceeds(Num(nowSec), timestamp, tolerance)

\* verifySignature(payload, signature, secret, {tolerance}) at clock nowSec:
\* "true", "false", or "rejects" when the returned promise rejects.
verifySignature(payload, signature, secret, tolOpt, nowSec) ==
  LET tolerance == OrElse(tolOpt, DefaultTolerance)
      parsed == parseSignatureHeader(signature)
  IN IF parsed = None THEN "false"
     ELSE LET timestamp == (CHOOSE x \in parsed : TRUE).timestamp
              providedSignature == (CHOOSE x \in parsed : TRUE).signature
          IN IF OutsideTolerance(nowSec, timestamp, tolerance) THEN "false"
             ELSE LET expected == computeSignature(payload, timestamp, secret)
                  IN IF ~expected.ok THEN "rejects"
                     ELSE IF secureCompare(expected.hex, providedSignature)
                          THEN "true" ELSE "false"

\* crypto.timingSafeEqual on two buffers: a RangeError when the byte lengths
\* differ, else whether the bytes are equal.
timingSafeEqual(a, b) ==
  IF Len(a) # Len(b) THEN "throws" ELSE IF a = b THEN "true" ELSE "false"

\* try { return timingSafeEqual(...) } catch { return false }
Uncaught(res) == res

CatchReturnsFalse(res) == IF res = "throws" THEN "false" ELSE res

\* verifySignatureSync; canRequire tells whether require('crypto') resolves
\* (a CommonJS Node.js runtime); without it the call throws.
verifySignatureSync(payload, signature, secret, tolOpt, nowSec, canRequire) ==
  LET tolerance == OrElse(tolOpt, DefaultTolerance)
      parsed == parseSignatureHeader(signature)
  IN IF parsed = None THEN "false"
     ELSE LET timestamp == (CHOOSE x \in parsed : TRUE).timestamp
              providedSignature == (CHOOSE x \in parsed : TRUE).signature
          IN IF OutsideTolerance(nowSec, timestamp, tolerance) THEN "false"
             ELSE IF ~canRequire THEN "throws"
             ELSE LET expectedSignature ==
                        ToHex(Hmac(Utf8(secret), Utf8(SignedPayload(payload, timestamp))))
                  IN CatchReturnsFalse(
                       timingSafeEqual(Utf8(expectedSignature), Utf8(providedSignature)))

\* JSON.stringify({event, timestamp, data}), abridged: the payload is a
\* string that depends on the event, the clock and the data.
JsonStringify(event, nowSec, data) ==
  << "{" >> \o event \o << ":" >> \o NatToString(nowSec) \o << ":" >> \o data \o << "}" >>

\* `t=${timestamp},v1=${signature}`
SignatureHeader(timestampText, signature) ==
  << "t", "=" >> \o timestampText \o << ",", "v", "1", "=" >> \o signature

\* ----------------------------------------------- webhook-verify.ts: state
Events == { << "a" >> }
DataValues == { << "1" >> }
ToleranceValues == { None, Some(200) }

\* Clock values at which the request is verified.
ClockValues ==
  { SignTime + d : d \in { 0 - (DefaultTolerance + 1), 0 - DefaultTolerance, 0, 200,
                           DefaultTolerance, DefaultTolerance + 1 } }

TheConstructed == CHOOSE c \in constructed : TRUE

\* Texts put in place of the t= value of a header signed at timestamp ts.
TimestampTexts(ts) ==
  { NatToString(ts + 1), NatToString(ts - 400), << "0" >> \o NatToString(ts),
    NatToString(ts) \o << "x" >>, << "x" >>, << >> }

\* constructTestEvent(event, data, secret); the returned payload and signature
\* header become the request under verification. With an empty secret
\* computeSignature rejects and nothing is returned.
ConstructTestEvent ==
  /\ constructed = None
  /\ \E event \in Events, data \in DataValues, secret \in Secrets :
       LET timestamp == now
           payload == JsonStringify(event, now, data)
           signature == computeSignature(payload, Num(timestamp), secret)
           header == SignatureHeader(NumberToString(Num(timestamp)), signature.hex)
       IN IF signature.ok
          THEN /\ constructed' = Some([ payload |-> payload, header |-> header,
                                        secret |-> secret, timestamp |-> timestamp ])
               /\ reqPayload' = payload
               /\ reqHeader' = header
          ELSE UNCHANGED << constructed, reqPayload, reqHeader >>
  /\ outcome' = "none"
  /\ outcomeSync' = "none"
  /\ UNCHANGED << now, whSecret, toleranceOpt, hasRequire >>
  /\ UNCHANGED nonWebhookVars

\* Time passes, or the verifier's clock differs from the signer's.
SetClock ==
  /\ constructed # None
  /\ \E t \in ClockValues : t # now /\ now' = t
  /\ outcome' = "none"
  /\ outcomeSync' = "none"
  /\ UNCHANGED << constructed, reqPayload, reqHeader, whSecret, toleranceOpt, hasRequire >>
  /\ UNCHANGED nonWebhookVars

\* The caller's choice of secret and options.tolerance.
Configure ==
  /\ \E k \in Secrets, tol \in ToleranceValues :
       /\ << k, tol >> # << whSecret, toleranceOpt >>
       /\ whSecret' = k
       /\ toleranceOpt' = tol
  /\ outcome' = "none"
  /\ outcomeSync' = "none"
  /\ UNCHANGED << now, constructed, reqPayload, reqHeader, hasRequire >>
  /\ UNCHANGED nonWebhookVars

\* The body is changed after signing.
TamperPayload ==
  /\ constructed # None
  /\ reqPayload = TheConstructed.payload
  /\ reqPayload' = reqPayload \o << "x" >>
  /\ outcome' = "none"
  /\ outcomeSync' = "none"
  /\ UNCHANGED << now, constructed, reqHeader, whSecret, toleranceOpt, hasRequire >>
  /\ UNCHANGED nonWebhookVars

\* The header is changed after signing: another t= text, a truncated,
\* lengthened or altered v1= value, a part removed, the parts reordered, or
\* a header that has no key=value shape at all.
TamperHeader ==
  /\ constructed # None
  /\ reqHeader = TheConstructed.header
  /\ LET ts == TheConstructed.timestamp
         tsText == NatToString(ts)
         sig == (CHOOSE x \in parseSignatureHeader(reqHeader) : TRUE).signature
         last == sig[Len(sig)]
         flipped == [sig EXCEPT ![Len(sig)] = IF last = "0" THEN "1" ELSE "0"]
     IN reqHeader' \in
          { SignatureHeader(text, sig) : text \in TimestampTexts(ts) }
            \cup { SignatureHeader(tsText, SubSeq(sig, 1, Len(sig) - 1)),
                   SignatureHeader(tsText, sig \o << "0" >>),
                   SignatureHeader(tsText, flipped),
                   SignatureHeader(tsText, << >>),
                   << "v", "1", "=" >> \o sig,
                   << "t", "=" >> \o tsText,
                   << "v", "1", "=" >> \o sig \o << ",", "t", "=" >> \o tsText,
                   << "t", "=" >> \o tsText \o << ";", "v", "1", "=" >> \o sig,
                   << "x" >>,
                   << >> }
  /\ outcome' = "none"
  /\ outcomeSync' = "none"
  /\ UNCHANGED << now, constructed, reqPayload, whSecret, toleranceOpt, hasRequire >>
  /\ UNCHANGED nonWebhookVars

\* A sender holding secret k emits a header of its own for the current body:
\* any t= text, signed over the timestamp that text parses to.
SenderSigns ==
  /\ constructed # None
  /\ reqHeader = TheConstructed.header
  /\ \E k \in Secrets \ { << >> }, text \in TimestampTexts(TheConstructed.timestamp) :
       reqHeader' = SignatureHeader(text, computeSignature(reqPayload, parseInt(text), k).hex)
  /\ outcome' = "none"
  /\ outcomeSync' = "none"
  /\ UNCHANGED << now, constructed, reqPayload, whSecret, toleranceOpt, hasRequire >>
  /\ UNCHANGED nonWebhookVars

\* await ScellWebhooks.verifySignature(payload, header, secret, options)
VerifySignature ==
  /\ outcome = "none"
  /\ outcome' = verifySignature(reqPayload, reqHeader, whSecret, toleranceOpt, now)
  /\ UNCHANGED << now, constructed, reqPayload, reqHeader, whSecret, toleranceOpt,
                  hasRequire, outcomeSync >>
  /\ UNCHANGED nonWebhookVars

\* ScellWebhooks.verifySignatureSync(payload, header, secret, options)
VerifySignatureSync ==
  /\ outcomeSync = "none"
  /\ outcomeSync' = verifySignatureSync(reqPayload, reqHeader, whSecret, toleranceOpt,
                                        now, hasRequire)
  /\ UNCHANGED << now, constructed, reqPayload, reqHeader, whSecret, toleranceOpt,
                  hasRequire, outcome >>
  /\ UNCHANGED nonWebhookVars

WebhookNext ==
  \/ ConstructTestEvent
  \/ SetClock
  \/ Configure
  \/ TamperPayload
  \/ TamperHeader
  \/ SenderSigns
  \/ VerifySignature
  \/ VerifySignatureSync

WebhookSpec == Init /\ [][WebhookNext]_vars

\* ------------------------------------------- secureCompare on its own
CompareAlphabet == { "0", "a", "b" }

CompareStrings ==
  UNION { [ 1..n -> CompareAlphabet ] : n \in 0..MaxCompareLen }

\* The two strings of the call. secureCompare keeps nothing between calls,
\* so a behaviour makes one call and the calls differ by their arguments.
CompareInputs ==
  /\ cmpResult = "none"
  /\ cmpA = << >>
  /\ cmpB = << >>
  /\ \E a \in CompareStrings, b \in CompareStrings :
       /\ cmpA' = a
       /\ cmpB' = b
  /\ UNCHANGED << cmpResult, cmpSteps >>
  /\ UNCHANGED nonCmpVars

\* secureCompare(cmpA, cmpB)
SecureCompare ==
  /\ cmpResult = "none"
  /\ cmpResult' = IF secureCompare(cmpA, cmpB) THEN "true" ELSE "false"
  /\ cmpSteps' = secureCompareSteps(cmpA, cmpB)
  /\ UNCHANGED << cmpA, cmpB >>
  /\ UNCHANGED nonCmpVars

CompareNext == CompareInputs \/ SecureCompare

CompareSpec == Init /\ [][CompareNext]_vars

\* C11: secureCompare returns true exactly when its two arguments are the
\* same string; on a length mismatch it returns false without entering the
\* loop, and on equal lengths the loop body runs once per character position
\* whatever the contents and wherever the first mismatch lies.
C11_SecureCompare ==
  (cmpResult # "none") =>
     /\ (cmpResult = "true") <=> (cmpA = cmpB)
     /\ (Len(cmpA) # Len(cmpB)) => (cmpResult = "false" /\ cmpSteps = 0)
     /\ (Len(cmpA) = Len(cmpB)) => (cmpSteps = Len(cmpA))

C11_Witness ==
  /\ cmpResult = "false"
  /\ Len(cmpA) = MaxCompareLen /\ Len(cmpB) = MaxCompareLen
  /\ cmpA[1] # cmpB[1]
  /\ \A i \in 2..MaxCompareLen : cmpA[i] = cmpB[i]
  /\ cmpSteps = MaxCompareLen

\* ---------------------------------------------------- webhook properties
Tolerance == OrElse(toleranceOpt, DefaultTolerance)
Verified == outcome # "none"
ReqParsed == parseSignatureHeader(reqHeader)
ReqTimestamp == (CHOOSE x \in ReqParsed : TRUE).timestamp
ReqSignature == (CHOOSE x \in ReqParsed : TRUE).signature
\* The lowercase hex HMAC of "{timestamp}.{payload}" under the verifier's secret.
ExpectedHex == ToHex(Hmac(Utf8(whSecret), Utf8(SignedPayload(reqPayload, ReqTimestamp))))
Distance(a, b) == IF a >= b THEN a - b ELSE b - a
Untampered ==
  /\ constructed # None
  /\ reqPayload = TheConstructed.payload
  /\ reqHeader = TheConstructed.header

\* The raw values of the key=... parts of a header, in order.
RECURSIVE RawValues(_, _)
RawValues(parts, key) ==
  IF Len(parts) = 0 THEN << >>
  ELSE LET part == Head(parts)
           i == IndexOf(part, "=")
       IN (IF i # 0 - 1 /\ Substring(part, 0, i) = key
           THEN << SubstringFrom(part, i + 1) >> ELSE << >>)
            \o RawValues(Tail(parts), key)

\* An optional sign followed by one or more decimal digits, nothing else.
IsIntegerText(text) ==
  LET body == IF Len(text) > 0 /\ Head(text) \in {"+", "-"} THEN Tail(text) ELSE text
  IN Len(body) > 0 /\ \A i \in 1..Len(body) : IsDigit(body[i])

ConstructedSignature ==
  (CHOOSE x \in parseSignatureHeader(TheConstructed.header) : TRUE).signature
HeaderTValues == RawValues(Split(reqHeader, ","), << "t" >>)
HeaderV1Values == RawValues(Split(reqHeader, ","), << "v", "1" >>)

\* C6: a request returned by constructTestEvent, verified with the signing
\* secret while |now - signing time| <= tolerance, verifies as true.
C6_ConstructedEventVerifies ==
  ( /\ Verified
    /\ Untampered
    /\ whSecret = TheConstructed.secret
    /\ Distance(now, TheConstructed.timestamp) <= Tolerance ) => outcome = "true"

C6_Witness ==
  /\ Verified /\ Untampered /\ whSecret = TheConstructed.secret
  /\ toleranceOpt = None
  /\ now = TheConstructed.timestamp + DefaultTolerance
  /\ outcome = "true"

\* C7: whenever the supplied v1 value is not the HMAC-SHA256 of
\* "{timestamp}.{payload}" under the verifier's secret, verifySignature
\* returns false; in particular for a request signed by constructTestEvent
\* and then verified with another secret, with a changed payload, with a
\* changed t= value or with a changed v1= value.
C7_WrongSignatureReturnsFalse ==
  /\ (Verified /\ ReqParsed # None /\ ReqSignature # ExpectedHex) => outcome = "false"
  /\ ( /\ Verified
       /\ constructed # None
       /\ Len(HeaderTValues) = 1
       /\ Len(HeaderV1Values) = 1
       /\ \/ /\ reqHeader = TheConstructed.header
             /\ \/ whSecret # TheConstructed.secret
                \/ reqPayload # TheConstructed.payload
          \/ /\ whSecret = TheConstructed.secret
             /\ reqPayload = TheConstructed.payload
             /\ \/ /\ HeaderTValues[1] # NatToString(TheConstructed.timestamp)
                   /\ HeaderV1Values[1] = ConstructedSignature
                \/ /\ HeaderTValues[1] = NatToString(TheConstructed.timestamp)
                   /\ HeaderV1Values[1] # ConstructedSignature ) => outcome = "false"

\* C8: for a header carrying the correct signature under a non-empty secret,
\* verifySignature returns true exactly when the header's timestamp lies
\* within tolerance seconds of the clock, on either side.
C8_WindowIff ==
  (Verified /\ ReqParsed # None /\ whSecret # << >> /\ ReqSignature = ExpectedHex) =>
     ( outcome = "true" <=>
         (~ReqTimestamp.nan /\ Distance(now, ReqTimestamp.v) <= Tolerance) )

\* C9: a header without a t= part, without a v1= part, or whose t= value is
\* not an integer is rejected with false (checked for a non-empty secret).
C9_MalformedHeaderReturnsFalse ==
  ( /\ Verified
    /\ whSecret # << >>
    /\ \/ Len(HeaderTValues) = 0
       \/ Len(HeaderV1Values) = 0
       \/ ~IsIntegerText(HeaderTValues[Len(HeaderTValues)]) ) => outcome = "false"

\* C10: verifySignature never rejects and verifySignatureSync (where
\* require('crypto') resolves) never throws: each completes with a boolean.
C10_NeverThrows ==
  /\ outcome \in {"none", "true", "false"}
  /\ hasRequire => outcomeSync \in {"none", "true", "false"}

\* C26: wherever require('crypto') resolves, verifySignatureSync and
\* verifySignature complete with the same boolean for the same payload,
\* header, secret, tolerance and clock.
C26_SyncEqualsAsync ==
  (hasRequire /\ outcome # "none" /\ outcomeSync # "none") =>
     (outcome \in {"true", "false"} /\ outcomeSync = outcome)

\* =============================================================== client.ts
\* ClientConfig: enableRetry and retry may be left undefined.
EnableRetryValues == { None, Some(TRUE), Some(FALSE) }

\* config.retry ?? {}
EmptyRetryOptions ==
  [ maxRetries |-> None, baseDelay |-> None, maxDelay |-> None,
    jitterFactor |-> None, isRetryable |-> None ]

ClientRetryValues == { None, Some([EmptyRetryOptions EXCEPT !.maxRetries = Some(1)]) }

\* config.timeout ?? 30000, and RequestOptions.timeout (milliseconds).
DefaultTimeout == 30000
TimeoutValues == { None, Some(7) }
RequestTimeoutValues == { None, Some(5) }

\* The methods that go through this.request, and RequestOptions.skipRetry.
Methods == { "GET", "POST", "PUT", "PATCH", "DELETE" }
SkipRetryValues == { None, Some(TRUE), Some(FALSE) }

\* Status lines the transport answers with, and the Retry-After header of a
\* 429 answer.
HttpStatuses == { 200, 400, 401, 402, 403, 404, 422, 429, 503 }
ResponseRetryAfter(status) == IF status = 429 THEN { None, Some(<< "2" >>) } ELSE { None }

\* Bodies of a response: "json" is a JSON object with message and errors,
\* "text" a body whose Content-Type is not application/json, "malformed" a
\* body announced as application/json that response.json() fails to parse
\* (empty, truncated, or the HTML page of a gateway).
ResponseBodies == { "json", "text", "malformed" }

\* The responses the transport answers with: every status with a JSON body,
\* and some with the other bodies.
Responses ==
  { [ status |-> st, body |-> "json" ] : st \in HttpStatuses }
    \cup { [ status |-> st, body |-> "text" ] : st \in { 422, 503 } }
    \cup { [ status |-> st, body |-> "malformed" ] : st \in { 200, 404, 503 } }

\* const errors = errorBody?.errors ?? {}
ErrorsOf(body) == IF body = "json" THEN "fieldErrors" ELSE "empty"

\* response.ok
ResponseOk(status) == status >= 200 /\ status <= 299

\* parseApiError(status, body, headers): the error it throws.
parseApiError(status, body, header, id) ==
  IF status = 401 THEN NewError("ScellAuthenticationError", None, id)
  ELSE IF status = 402 THEN NewError("ScellInsufficientBalanceError", None, id)
  ELSE IF status = 403 THEN NewError("ScellAuthorizationError", None, id)
  ELSE IF status = 404 THEN NewError("ScellNotFoundError", None, id)
  ELSE IF status = 422
       THEN [ NewError("ScellValidationError", None, id)
                EXCEPT !.errors = Some(ErrorsOf(body)) ]
  ELSE IF status = 429 THEN RateLimitErrorOf(header, id)
  ELSE IF status >= 500 THEN NewError("ScellServerError", None, id)
  ELSE NewError("ScellError", None, id)

\* Ways the promise of fetch rejects for want of a connection: a TypeError
\* whose message contains 'fetch' ('fetch failed', 'Failed to fetch'), or a
\* TypeError with another message ('Load failed', 'terminated').
TransportFailures == { "TypeErrorFetch", "TypeErrorOther" }

\* The error objects the platform raises inside the try block: the
\* TypeErrors above, the AbortError of an aborted signal, the SyntaxError of
\* response.json().
PlatformError(kind, id) ==
  IF kind \in TransportFailures THEN NewError("TypeError", None, id)
  ELSE [ NewError("Error", None, id) EXCEPT !.name = Some(kind) ]

\* The catch block of executeRequest and of getRaw: what it throws for the
\* error caught, includesFetch being error.message.includes('fetch').
CatchBlock(error, includesFetch) ==
  IF InstanceOf(error, "Error") /\ error.name = Some("AbortError")
  THEN NewError("ScellTimeoutError", None, error.id)
  ELSE IF InstanceOf(error, "Error") /\ error.name = Some("TypeError") /\ includesFetch
  THEN NewError("ScellNetworkError", None, error.id)
  ELSE error

\* const shouldRetry = this.enableRetry && !config.skipRetry
ShouldRetryIgnoringSkip(enableRetry, skipRetry) == enableRetry

ShouldRetry(enableRetry, skipRetry) == enableRetry /\ ~OrElse(skipRetry, FALSE)

TheClient == CHOOSE c \in hClient : TRUE
TheReq == CHOOSE q \in hReq : TRUE

\* const requestTimeout = timeout ?? this.timeout
RequestTimeout(timeout) == OrElse(timeout, TheClient.timeout)
hMaxRetries == OrElse(TheClient.retryOptions.maxRetries, DefaultMaxRetries)

\* The signal handed to fetch is aborted.
FetchSignalAborted == hFetchSignal = "controller" /\ hControllerAborted

\* new HttpClient(authMode, authToken, config)
NewHttpClient ==
  /\ hClient = None
  /\ \E enableRetry \in EnableRetryValues, retry \in ClientRetryValues,
        timeout \in TimeoutValues :
       hClient' = Some([ enableRetry |-> OrElse(enableRetry, TRUE),
                         retryOptions |-> OrElse(retry, EmptyRetryOptions),
                         timeout |-> OrElse(timeout, DefaultTimeout) ])
  /\ UNCHANGED << hReq, hPc, hViaRetry, hAttempt, hLastError, hDelay, hResult,
                  hRejection, hFetches, hSleeps, hTimers, hControllerAborted, hTimedOut,
                  hFetchSignal, hSignalAborted, hAbortPhase, hFetchesAtAbort,
                  hLastStatus, hLastAnswer >>
  /\ UNCHANGED nonHttpVars

\* executeRequest (lines 130-160) and getRaw (lines 313-333) up to the await
\* of fetch: a new controller, its timeout timer, the caller's listener, and
\* the call of the transport. executeRequest hands fetch the signal of a
\* second, fresh AbortController when the caller gave a signal.
StartAttempt(req) ==
  /\ hFetches' = hFetches + 1
  /\ hTimers' = hTimers \cup { [ attempt |-> hFetches + 1,
                               ms |-> RequestTimeout(req.timeout) ] }
  /\ hControllerAborted' = FALSE
  /\ hTimedOut' = FALSE
  /\ hFetchSignal' = IF req.signal /\ req.method # "getRaw" THEN "fresh" ELSE "controller"
  /\ hPc' = "fetching"

\* withRetry's loop head for the request.
HttpLoopHead(a, req) ==
  IF LoopCondition(a, hMaxRetries)
  THEN /\ StartAttempt(req)
       /\ hRejection' = hRejection
  ELSE /\ hPc' = "rejected"
       /\ hRejection' = hLastError'
       /\ UNCHANGED << hFetches, hTimers, hControllerAborted, hTimedOut, hFetchSignal >>

\* get, post, put, patch, delete: this.request(config)
Request ==
  /\ hClient # None
  /\ hReq = None
  /\ hPc = "idle"
  /\ \E method \in Methods, skipRetry \in SkipRetryValues, signal \in BOOLEAN,
        timeout \in RequestTimeoutValues :
       LET req == [ method |-> method, skipRetry |-> skipRetry, signal |-> signal,
                    timeout |-> timeout ]
           shouldRetry == ShouldRetry(TheClient.enableRetry, skipRetry)
       IN /\ hReq' = Some(req)
          /\ hViaRetry' = shouldRetry
          /\ hAttempt' = 0
          /\ hLastError' = None
          /\ IF shouldRetry THEN HttpLoopHead(0, req)
             ELSE StartAttempt(req) /\ hRejection' = hRejection
  /\ UNCHANGED << hClient, hDelay, hResult, hSleeps, hSignalAborted, hAbortPhase,
                  hFetchesAtAbort, hLastStatus, hLastAnswer >>
  /\ UNCHANGED nonHttpVars

\* getRaw(path, query, options)
GetRaw ==
  /\ hClient # None
  /\ hReq = None
  /\ hPc = "idle"
  /\ \E skipRetry \in SkipRetryValues, signal \in BOOLEAN,
        timeout \in RequestTimeoutValues :
       LET req == [ method |-> "getRaw", skipRetry |-> skipRetry, signal |-> signal,
                    timeout |-> timeout ]
       IN /\ hReq' = Some(req)
          /\ StartAttempt(req)
  /\ UNCHANGED << hClient, hViaRetry, hAttempt, hLastError, hDelay, hResult, hRejection,
                  hSleeps, hSignalAborted, hAbortPhase, hFetchesAtAbort, hLastStatus, hLastAnswer >>
  /\ UNCHANGED nonHttpVars

\* clearTimeout(timeoutId) left out.
ClearTimeoutLeftOut == hTimers' = hTimers

\* clearTimeout(timeoutId), timeoutId being the timer of the attempt in flight:
\* a no-op once the timer has fired.
ClearTimeout == hTimers' = { t \in hTimers : t.attempt # hFetches }

\* The attempt ends by throwing error: inside withRetry the catch block of
\* retry.ts runs, otherwise the request rejects with it.
AttemptThrows(error) ==
  IF hViaRetry
  THEN \E r \in 0..(RandDen - 1) :
         LET opts == TheClient.retryOptions
             retryable == ApplyIsRetryable(opts, error)
             retryAfter == IF InstanceOf(error, "ScellRateLimitError")
                           THEN error.retryAfter ELSE None
         IN /\ hLastError' = Some(error)
            /\ IF ShouldThrow(hAttempt, hMaxRetries, retryable)
               THEN /\ hPc' = "rejected"
                    /\ hRejection' = Some(Thrown(error))
                    /\ UNCHANGED << hDelay, hSleeps >>
               ELSE /\ hPc' = "sleeping"
                    /\ hDelay' = calculateDelay(hAttempt,
                                   OrElse(opts.baseDelay, DefaultBaseDelay),
                                   OrElse(opts.maxDelay, DefaultMaxDelay),
                                   OrElse(opts.jitterFactor, DefaultJitterPct),
                                   retryAfter, r)
                    /\ hSleeps' = hSleeps + 1
                    /\ hRejection' = hRejection
  ELSE /\ hPc' = "rejected"
       /\ hRejection' = Some(error)
       /\ UNCHANGED << hLastError, hDelay, hSleeps >>

\* fetch resolves with a response: the timer is cleared and the body is read
\* (by executeRequest always, by getRaw only when the response is not ok); a
\* body that fails to parse throws, and so does a response that is not ok,
\* through parseApiError; the catch block rethrows.
FetchResponds ==
  /\ hPc = "fetching"
  /\ ~FetchSignalAborted
  /\ ClearTimeout
  /\ \E response \in Responses :
     LET status == response.status
         body == response.body
     IN
       /\ hLastStatus' = status
       /\ hLastAnswer' = body
       /\ IF body = "malformed" /\ (TheReq.method # "getRaw" \/ ~ResponseOk(status))
          THEN /\ AttemptThrows(CatchBlock(PlatformError("SyntaxError", hFetches), FALSE))
               /\ hResult' = hResult
          ELSE IF ResponseOk(status)
          THEN /\ hPc' = "resolved"
               /\ hResult' = Some([val |-> "ok", id |-> hFetches])
               /\ UNCHANGED << hRejection, hLastError, hDelay, hSleeps >>
          ELSE /\ \E header \in ResponseRetryAfter(status) :
                    AttemptThrows(CatchBlock(
                       parseApiError(status, body, header, hFetches), FALSE))
               /\ hResult' = hResult
  /\ UNCHANGED << hClient, hReq, hViaRetry, hAttempt, hFetches, hControllerAborted, hTimedOut,
                  hFetchSignal, hSignalAborted, hAbortPhase, hFetchesAtAbort >>
  /\ UNCHANGED nonHttpVars

\* fetch rejects with a TypeError (no connection, DNS failure, ...).
FetchRejects ==
  /\ hPc = "fetching"
  /\ ~FetchSignalAborted
  /\ ClearTimeout
  /\ \E kind \in TransportFailures :
       /\ hLastAnswer' = kind
       /\ AttemptThrows(CatchBlock(PlatformError(kind, hFetches),
                                   kind = "TypeErrorFetch"))
  /\ UNCHANGED << hClient, hReq, hViaRetry, hAttempt, hResult, hFetches,
                  hControllerAborted, hTimedOut, hFetchSignal, hSignalAborted,
                  hAbortPhase, hFetchesAtAbort, hLastStatus >>
  /\ UNCHANGED nonHttpVars

\* fetch rejects with an AbortError because its signal is aborted.
FetchAborted ==
  /\ hPc = "fetching"
  /\ FetchSignalAborted
  /\ ClearTimeout
  /\ hLastAnswer' = "AbortError"
  /\ AttemptThrows(CatchBlock(PlatformError("AbortError", hFetches), FALSE))
  /\ UNCHANGED << hClient, hReq, hViaRetry, hAttempt, hResult, hFetches,
                  hControllerAborted, hTimedOut, hFetchSignal, hSignalAborted,
                  hAbortPhase, hFetchesAtAbort, hLastStatus >>
  /\ UNCHANGED nonHttpVars

\* A pending timeout timer fires: () => controller.abort(), controller being
\* the AbortController of the attempt that set the timer.
TimeoutFires ==
  /\ \E t \in hTimers :
       /\ hTimers' = hTimers \ { t }
       /\ hControllerAborted' = (hControllerAborted \/ t.attempt = hFetches)
       /\ hTimedOut' = (hTimedOut \/ t.attempt = hFetches)
  /\ UNCHANGED << hClient, hReq, hPc, hViaRetry, hAttempt, hLastError, hDelay, hResult,
                  hRejection, hFetches, hSleeps, hFetchSignal, hSignalAborted,
                  hAbortPhase, hFetchesAtAbort, hLastStatus, hLastAnswer >>
  /\ UNCHANGED nonHttpVars

\* The caller's options.signal fires while the request is in progress; the
\* listener of the attempt in flight calls controller.abort().
CallerAborts ==
  /\ hReq # None
  /\ TheReq.signal
  /\ ~hSignalAborted
  /\ hPc \in { "fetching", "sleeping" }
  /\ hSignalAborted' = TRUE
  /\ hAbortPhase' = hPc
  /\ hFetchesAtAbort' = hFetches
  /\ hControllerAborted' = (hControllerAborted \/ hPc = "fetching")
  /\ UNCHANGED << hClient, hReq, hPc, hViaRetry, hAttempt, hLastError, hDelay, hResult,
                  hRejection, hFetches, hSleeps, hTimers, hTimedOut, hFetchSignal,
                  hLastStatus, hLastAnswer >>
  /\ UNCHANGED nonHttpVars

\* The backoff sleep of the request ends: attempt++ and the loop head.
HttpSleepDone ==
  /\ hPc = "sleeping"
  /\ hAttempt' = hAttempt + 1
  /\ hLastError' = hLastError
  /\ HttpLoopHead(hAttempt + 1, TheReq)
  /\ UNCHANGED << hClient, hReq, hViaRetry, hDelay, hResult, hSleeps, hSignalAborted,
                  hAbortPhase, hFetchesAtAbort, hLastStatus, hLastAnswer >>
  /\ UNCHANGED nonHttpVars

HttpNext ==
  \/ NewHttpClient
  \/ Request
  \/ GetRaw
  \/ FetchResponds
  \/ FetchRejects
  \/ FetchAborted
  \/ TimeoutFires
  \/ CallerAborts
  \/ HttpSleepDone

HttpSpec == Init /\ [][HttpNext]_vars

\* ------------------------------------------------------- client properties
HttpSettled == hPc \in { "resolved", "rejected" }
TheRejection == CHOOSE e \in hRejection : TRUE
RejectionClass == IF hRejection = None THEN "none" ELSE TheRejection.cls

\* C16: once the caller's signal has fired during a request, the attempt in
\* flight at that moment is aborted, the transport is not called again, no
\* further backoff sleep is taken, and the request does not resolve: it
\* rejects with the cancellation error.
C16_AbortStopsRetrying ==
  hSignalAborted =>
     /\ hFetches = hFetchesAtAbort
     /\ (hPc = "fetching" /\ hAbortPhase = "fetching") => FetchSignalAborted
     /\ hPc # "resolved"
     /\ (hPc = "rejected") => RejectionClass = "ScellTimeoutError"

\* C19: with retries enabled and skipRetry unset, a request of any method
\* that rejects with the error of a 429 or 5xx response has called the
\* transport maxRetries + 1 times.
C19_EveryMethodRetries ==
  ( /\ hReq # None
    /\ TheClient.enableRetry
    /\ TheReq.skipRetry = None
    /\ hPc = "rejected"
    /\ RejectionClass \in { "ScellRateLimitError", "ScellServerError" } )
    => hFetches = hMaxRetries + 1

\* C20: a request of a client built with enableRetry = false, or a request
\* with skipRetry = true, calls the transport exactly once, never sleeps,
\* and when that one call fails rejects with its error.
C20_NoRetryWhenDisabled ==
  (hReq # None /\ (~TheClient.enableRetry \/ TheReq.skipRetry = Some(TRUE))) =>
     /\ hFetches = 1
     /\ hSleeps = 0
     /\ hPc \in { "fetching", "resolved", "rejected" }
     /\ (hPc = "rejected") => (hRejection # None /\ TheRejection.id = 1)

C20_Witness ==
  /\ hReq # None /\ TheClient.enableRetry /\ TheReq.skipRetry = Some(TRUE)
  /\ TheReq.method = "POST"
  /\ hPc = "rejected" /\ RejectionClass = "ScellServerError"
  /\ hFetches = 1 /\ hSleeps = 0

\* The error the last attempt ended with: withRetry's lastError inside
\* withRetry, the rejection otherwise.
AttemptError == IF hViaRetry THEN hLastError ELSE hRejection
TheAttemptError == CHOOSE e \in AttemptError : TRUE
AttemptEnded == hPc \in { "sleeping", "rejected" }

\* The error class the specification assigns to each status.
ClassOfStatus(status) ==
  CASE status = 401 -> "ScellAuthenticationError"
    [] status = 402 -> "ScellInsufficientBalanceError"
    [] status = 403 -> "ScellAuthorizationError"
    [] status = 404 -> "ScellNotFoundError"
    [] status = 422 -> "ScellValidationError"
    [] status = 429 -> "ScellRateLimitError"
    [] OTHER -> IF status >= 500 THEN "ScellServerError" ELSE "ScellError"

\* C21: an attempt answered by a response that is not ok ends with one error
\* whose class is fixed by the status (401, 402, 403, 404, 422, 429, >= 500,
\* other), a 422 error carrying the field errors of the body and a 429 error
\* the seconds of its Retry-After header, and the request has no result.
C21_TypedErrorByStatus ==
  (hLastAnswer \in ResponseBodies /\ ~ResponseOk(hLastStatus) /\ AttemptEnded) =>
     /\ AttemptError # None
     /\ TheAttemptError.cls = ClassOfStatus(hLastStatus)
     /\ TheAttemptError.id = hFetches
     /\ (hLastStatus = 422) => TheAttemptError.errors = Some(ErrorsOf(hLastAnswer))
     /\ (hLastStatus = 429) =>
           TheAttemptError.retryAfter = RetryAfterOf(TheAttemptError.header)
     /\ hResult = None

\* C24: for get, post, put, patch and delete, the timer of an attempt is set
\* with the request's timeout, else the client's, else 30000 ms, and once it
\* has fired the signal handed to fetch is aborted and the attempt ends with
\* ScellTimeoutError, never with a response.
C24_TimeoutAbortsFetch ==
  (hReq # None /\ TheReq.method \in Methods) =>
     /\ \A t \in hTimers : t.ms = OrElse(TheReq.timeout, TheClient.timeout)
     /\ hTimedOut =>
          /\ (hPc = "fetching") => FetchSignalAborted
          /\ (hPc # "fetching") =>
               (hPc = "rejected" /\ RejectionClass = "ScellTimeoutError")

\* C25: an attempt that fetch ends with a connectivity failure ends with a
\* ScellNetworkError, and with retries in force the request is rejected with
\* it only after maxRetries + 1 calls of the transport; the error made from
\* a response that is not ok leaves the catch block as the same error.
C25_ConnectivityFailuresRetried ==
  /\ (hLastAnswer \in TransportFailures /\ AttemptEnded) =>
        /\ AttemptError # None
        /\ TheAttemptError.cls = "ScellNetworkError"
        /\ ( /\ hPc = "rejected"
             /\ TheClient.enableRetry
             /\ TheReq.skipRetry # Some(TRUE) ) => hFetches = hMaxRetries + 1
  /\ (hLastAnswer \in { "json", "text" } /\ ~ResponseOk(hLastStatus) /\ AttemptEnded) =>
        /\ AttemptError # None
        /\ TheAttemptError =
             parseApiError(hLastStatus, hLastAnswer, TheAttemptError.header, hFetches)

\* C30: at most one timeout timer is pending, it belongs to the attempt in
\* flight, and none is pending while the request sleeps or once it settled.
C30_OneTimerPending ==
  /\ Cardinality(hTimers) <= 1
  /\ \A t \in hTimers : t.attempt = hFetches /\ hPc = "fetching"
  /\ (hPc # "fetching") => hTimers = {}

C30_Witness ==
  /\ hPc = "rejected" /\ hViaRetry /\ hFetches = 4 /\ hSleeps = 3
  /\ hTimers = {} /\ RejectionClass = "ScellRateLimitError"

\* ===================================== the requests the SDK clients build
\* JavaScript objects with string keys: sequences of << key, value >> in
\* insertion order. Header values and URLs are strings, written here with
\* one element per run of characters free of '/', '?', '&' and '='.
ObjHas(obj, key) == \E i \in 1..Len(obj) : obj[i][1] = key

\* obj[key] = value: an existing key keeps its place.
ObjSet(obj, key, value) ==
  IF ObjHas(obj, key)
  THEN [ i \in 1..Len(obj) |-> IF obj[i][1] = key THEN << key, value >> ELSE obj[i] ]
  ELSE Append(obj, << key, value >>)

\* delete obj[key]
ObjDelete(obj, key) == SelectSeq(obj, LAMBDA e : e[1] # key)

\* { ...a, ...b }
RECURSIVE ObjSpread(_, _)
ObjSpread(a, b) ==
  IF b = << >> THEN a ELSE ObjSpread(ObjSet(a, b[1][1], b[1][2]), Tail(b))

\* name.toLowerCase() for the header names that occur.
ToLowerCase(name) ==
  CASE name = "Authorization" -> "authorization"
    [] name = "X-API-Key" -> "x-api-key"
    [] name = "X-Tenant-Key" -> "x-tenant-key"
    [] name = "Content-Type" -> "content-type"
    [] name = "Accept" -> "accept"
    [] name = "X-Trace" -> "x-trace"
    [] OTHER -> name

\* The header list fetch makes of the headers record it is given: entries
\* are appended in order and names compare without regard to case, so the
\* values sent under one name are those of all the keys that spell it.
HeaderValues(headers, name) ==
  LET same == SelectSeq(headers, LAMBDA e : ToLowerCase(e[1]) = ToLowerCase(name))
  IN [ i \in 1..Len(same) |-> same[i][2] ]

\* config.baseUrl ?? 'https://api.scell.io/api/v1'
DefaultBaseUrl == << "https:", "/", "/", "api.scell.io", "/", "api", "/", "v1" >>
BaseUrlValues ==
  { None,
    Some(<< "https:", "/", "/", "api.scell.io", "/", "api", "/", "v1", "/", "sandbox" >>),
    Some(<< "https:", "/", "/", "custom.api.com" >>) }

\* The credentials the clients are constructed with.
Credentials == { "secret-1", "secret-2" }

\* The paths the resources pass, their query objects and RequestOptions.headers.
ResourcePaths ==
  { << "/", "invoices" >>, << "/", "invoices", "/", "inv-1", "/", "download" >> }
QueryValues ==
  { None, Some(<< << "format", Some("pdf") >>, << "page", None >> >>) }
RequestHeaderValues ==
  { None,
    Some(<< << "X-Trace", << "t-1" >> >> >>),
    Some(<< << "Accept", << "text", "/", "csv" >> >> >>),
    Some(<< << "Authorization", << "Bearer ", "other" >> >> >>),
    Some(<< << "authorization", << "Bearer ", "other" >> >> >>),
    Some(<< << "X-API-Key", << "other" >> >> >>),
    Some(<< << "x-api-key", << "other" >> >> >>) }

\* The parts of an absolute URL string: scheme and host (the first four
\* elements), and the segments of its path (one empty segment if it has none).
UrlOrigin(url) == SubSeq(url, 1, 4)
UrlPathSegments(url) ==
  IF Len(url) <= 4 THEN << << >> >> ELSE Tail(Split(SubstringFrom(url, 4), "/"))

\* new URL(path, base).toString(): a path that starts with '/' replaces the
\* whole path of base, any other path replaces its last segment.
NewURL(path, base) ==
  LET segments ==
        IF Len(path) > 0 /\ path[1] = "/"
        THEN Tail(Split(path, "/"))
        ELSE SubSeq(UrlPathSegments(base), 1, Len(UrlPathSegments(base)) - 1)
               \o Split(path, "/")
  IN UrlOrigin(base) \o << "/" >> \o Join(segments, "/")

\* url.searchParams.set(key, String(value)) for each entry that is not
\* undefined, as url.toString() prints them.
RECURSIVE SearchParams(_)
SearchParams(query) ==
  IF query = << >> THEN << >>
  ELSE IF query[1][2] = None THEN SearchParams(Tail(query))
  ELSE << << query[1][1], "=", OrElse(query[1][2], "") >> >> \o SearchParams(Tail(query))

buildUrl(baseUrl, path, query) ==
  LET params == SearchParams(OrElse(query, << >>))
  IN NewURL(path, baseUrl)
       \o (IF params = << >> THEN << >> ELSE << "?" >> \o Join(params, "&"))

buildHeaders(authMode, authToken, additionalHeaders) ==
  LET headers ==
        ObjSpread(<< << "Content-Type", << "application", "/", "json" >> >>,
                     << "Accept", << "application", "/", "json" >> >> >>,
                  OrElse(additionalHeaders, << >>))
  IN IF authMode = "bearer"
     THEN ObjSet(headers, "Authorization", << "Bearer ", authToken >>)
     ELSE ObjSet(headers, "X-API-Key", << authToken >>)

TheBuilt == CHOOSE c \in bClient : TRUE
TheBuiltReq == CHOOSE q \in bReq : TRUE
TheSent == CHOOSE a \in bSent : TRUE

\* new HttpClient(authMode, authToken, config): the fields that shape requests.
HttpClientFields(authMode, authToken, baseUrl) ==
  [ authMode |-> authMode, authToken |-> authToken,
    baseUrl |-> OrElse(baseUrl, DefaultBaseUrl) ]

\* new ScellClient(token, config)
NewScellClient ==
  /\ bClient = None
  /\ \E token \in Credentials, baseUrl \in BaseUrlValues :
       bClient' = Some([ sdk |-> "ScellClient",
                         http |-> HttpClientFields("bearer", token, baseUrl) ])
  /\ UNCHANGED << bReq, bSent, bSends >>
  /\ UNCHANGED nonBuildVars

\* new ScellApiClient(apiKey, config)
NewScellApiClient ==
  /\ bClient = None
  /\ \E apiKey \in Credentials, baseUrl \in BaseUrlValues :
       bClient' = Some([ sdk |-> "ScellApiClient",
                         http |-> HttpClientFields("api-key", apiKey, baseUrl) ])
  /\ UNCHANGED << bReq, bSent, bSends >>
  /\ UNCHANGED nonBuildVars

\* new ScellTenantClient(tenantKey, config)
NewScellTenantClient ==
  /\ bClient = None
  /\ \E tenantKey \in Credentials, baseUrl \in BaseUrlValues :
       bClient' = Some([ sdk |-> "ScellTenantClient",
                         http |-> HttpClientFields("tenant-key", tenantKey, baseUrl) ])
  /\ UNCHANGED << bReq, bSent, bSends >>
  /\ UNCHANGED nonBuildVars

\* The arguments of fetchFn in executeRequest (lines 132-160) and in getRaw
\* (lines 313-333).
FetchArguments(http, req) ==
  LET requestHeaders == buildHeaders(http.authMode, http.authToken, req.headers)
  IN [ url |-> buildUrl(http.baseUrl, req.path, req.query),
       headers |-> IF req.entry = "getRaw"
                   THEN ObjSet(ObjDelete(requestHeaders, "Content-Type"),
                               "Accept", << "*", "/", "*" >>)
                   ELSE requestHeaders ]

\* A resource method calls this.http.get/post/... or this.http.getRaw: the
\* first call of the transport.
SendRequest ==
  /\ bClient # None
  /\ bReq = None
  /\ \E entry \in { "request", "getRaw" }, path \in ResourcePaths,
        query \in QueryValues, headers \in RequestHeaderValues :
       LET req == [ entry |-> entry, path |-> path, query |-> query,
                    headers |-> headers ]
       IN /\ bReq' = Some(req)
          /\ bSent' = Some(FetchArguments(TheBuilt.http, req))
  /\ bSends' = 1
  /\ UNCHANGED bClient
  /\ UNCHANGED nonBuildVars

\* withRetry invokes executeRequest again: URL and headers are built anew.
SendAgain ==
  /\ bReq # None
  /\ TheBuiltReq.entry = "request"
  /\ bSends <= DefaultMaxRetries
  /\ bSent' = Some(FetchArguments(TheBuilt.http, TheBuiltReq))
  /\ bSends' = bSends + 1
  /\ UNCHANGED << bClient, bReq >>
  /\ UNCHANGED nonBuildVars

BuildNext ==
  \/ NewScellClient
  \/ NewScellApiClient
  \/ NewScellTenantClient
  \/ SendRequest
  \/ SendAgain

BuildSpec == Init /\ [][BuildNext]_vars

\* ------------------------------------------------ request-building properties
IsPrefixOf(s, t) == Len(s) <= Len(t) /\ SubSeq(t, 1, Len(s)) = s

\* C22: every call of the transport by a ScellClient carries Authorization =
\* 'Bearer <token>' and every call by a ScellApiClient carries X-API-Key =
\* <key>, on each attempt and for raw downloads, whatever headers the
\* request supplies.
C22_CredentialSent ==
  (bSent # None) =>
     /\ (TheBuilt.sdk = "ScellClient") =>
           HeaderValues(TheSent.headers, "Authorization")
             = << << "Bearer ", TheBuilt.http.authToken >> >>
     /\ (TheBuilt.sdk = "ScellApiClient") =>
           HeaderValues(TheSent.headers, "X-API-Key")
             = << << TheBuilt.http.authToken >> >>

\* C23: every call of the transport by a ScellTenantClient carries
\* X-Tenant-Key = <tenant key>.
C23_TenantKeySent ==
  (bSent # None /\ TheBuilt.sdk = "ScellTenantClient") =>
     HeaderValues(TheSent.headers, "X-Tenant-Key")
       = << << TheBuilt.http.authToken >> >>

\* C27: the URL handed to the transport is the configured base URL followed
\* by the resource path (and then the query, if any).
C27_UrlKeepsBasePath ==
  (bSent # None) =>
     IsPrefixOf(TheBuilt.http.baseUrl \o TheBuiltReq.path, TheSent.url)

====
